---- MODULE Spec2Model ----
(***************************************************************************)
(* The download engine of libalpm (lib/libalpm/dload.c): the single        *)
(* transfer driver curl_download_internal, the parallel driver             *)
(* curl_multi_download_internal, the transfer configurator                 *)
(* curl_set_handle_opts and the progress sink dload_progress_cb.           *)
(*                                                                         *)
(* The transfer library and the remote mirrors are the environment: a      *)
(* transfer is connecting ("conn"), receiving its body ("body") or         *)
(* finished ("done") with the CURLcode the library reports.  File          *)
(* contents are sequences of byte tags: 0 for a byte that was on disk      *)
(* before the call, m for a byte served by mirror m, 9 for a byte of an    *)
(* error page, 7 for the old contents of a destination file.  Memory       *)
(* allocation is taken to succeed.                                         *)
(***************************************************************************)
EXTENDS Integers, Sequences, FiniteSets, TLC

VARIABLES
    driver,             \* "single": curl_download_internal, "multi": curl_multi_download_internal
    pc,                 \* position of the driver
    pl,                 \* the payloads (struct dload_payload), with their easy handles
    fs,                 \* the cache directory: file name -> [ex, data]
    fs0,                \* the cache directory when the driver was entered
    dload_interrupted,  \* static int dload_interrupted
    pm_errno,           \* handle->pm_errno
    sig,                \* dispositions of SIGINT and SIGPIPE
    raised,             \* raise(SIGINT) was called by the driver
    events,             \* per payload: the events handed to handle->dlcb
    still_running,      \* parallel driver: int still_running
    payloads,           \* parallel driver: next pending payload, 0 = NULL
    err,                \* parallel driver: int err
    parallel_downloads, \* handle->parallel_downloads
    msgs,               \* the multiplexer's queue of CURLMSG_DONE messages
    cb,                 \* the last invocation of the progress sink
    mcerr,              \* parallel driver: curl_multi_perform returned an error
    calls,              \* the calls of handle->fetchcb: [p, s, force, ret]
    pkg                 \* alpm_fetch_pkgurl: its inputs, locals and calls of _alpm_download

vars == <<driver, pc, pl, fs, fs0, dload_interrupted, pm_errno, sig, raised,
          events, still_running, payloads, err, parallel_downloads, msgs, cb, mcerr,
          calls, pkg>>

(***************************************************************************)
(* Bounds of the model.                                                    *)
(***************************************************************************)
\* size of the object every mirror serves
ObjSize == 3
\* longest mirror list of a payload
MaxServers == 2
\* longest list of payloads handed to the parallel driver
MaxPayloads == 2
\* progress-sink invocations without new data, per payload
MaxTicks == 1

\* the non-zero max_size of the model; a .part file holds 1..MaxSize bytes
MaxSize == ObjSize - 1

(***************************************************************************)
(* Program constants.                                                      *)
(***************************************************************************)
ABORT_SIGINT == 1
ABORT_OVER_MAXFILESIZE == 2

NoName == <<"NULL", 0>>
DestName(p) == <<"dest", p>>
PartName(p) == <<"part", p>>
TmpName(p) == <<"tmp", p>>
AltName(p) == <<"alt", p>>

Names(n) == {NoName} \cup ({"dest", "part", "tmp", "alt"} \X (1..n))

Absent == [ex |-> FALSE, data |-> <<>>]
File(d) == [ex |-> TRUE, data |-> d]

RECURSIVE Zeros(_)
Zeros(k) == IF k = 0 THEN <<>> ELSE <<0>> \o Zeros(k - 1)

(***************************************************************************)
(* Payloads as the caller hands them over.                                 *)
(***************************************************************************)
\* size: the size of the object the mirrors serve for the payload; part: the
\* size of the .part file in the cache, 0 for none; dest: the destination
\* file is in the cache; named: remote_name is a usable file name
AllConfigs ==
    [allow_resume : BOOLEAN, force : BOOLEAN, errors_ok : BOOLEAN,
     signature : BOOLEAN, trust_remote_name : BOOLEAN, unlink_on_fail : BOOLEAN,
     max_size : {0, MaxSize}, nservers : 1..MaxServers, named : BOOLEAN,
     part : 0..ObjSize, dest : BOOLEAN, size : 1..ObjSize]

\* payloads that differ in resume and size limit
ResumeConfig(c) ==
    /\ ~c.force /\ ~c.dest /\ ~c.trust_remote_name /\ ~c.signature
    /\ ~c.unlink_on_fail /\ c.named /\ c.size = ObjSize

\* payloads that differ in the freshness test and the naming of the artifact
FreshConfig(c) ==
    /\ c.part = 0 /\ c.max_size = 0 /\ ~c.signature /\ ~c.unlink_on_fail
    /\ ~c.errors_ok /\ c.size = ObjSize

\* payloads that differ in the failure policy
PolicyConfig(c) ==
    /\ ~c.allow_resume /\ c.part = 0 /\ ~c.dest /\ ~c.trust_remote_name
    /\ c.named /\ c.size = ObjSize

Configs == {c \in AllConfigs : ResumeConfig(c) \/ FreshConfig(c) \/ PolicyConfig(c)}

\* the payloads of a batch of several: a small object, required with one or
\* more mirrors or optional with one mirror, and a resumed object with a size
\* limit
BatchConfigs ==
    {c \in AllConfigs :
        /\ c.named /\ ~c.force /\ ~c.trust_remote_name /\ ~c.unlink_on_fail
        /\ ~c.dest /\ ~c.signature
        /\ \/ /\ c.size = 1 /\ c.part = 0 /\ c.max_size = 0 /\ ~c.allow_resume
              /\ c.errors_ok => c.nservers = 1
           \/ /\ c.size = ObjSize /\ c.part = 1 /\ c.max_size = MaxSize
              /\ c.allow_resume /\ c.nservers = 1 /\ ~c.errors_ok}

NewPayload(c) ==
    [allow_resume |-> c.allow_resume, force |-> c.force, errors_ok |-> c.errors_ok,
     signature |-> c.signature, trust_remote_name |-> c.trust_remote_name,
     unlink_on_fail |-> c.unlink_on_fail, max_size |-> c.max_size,
     nservers |-> c.nservers, named |-> c.named, size |-> c.size,
     servers |-> 1, fileurl |-> 0,
     tempfile_name |-> NoName, destfile_name |-> NoName,
     tempfile_openmode |-> "wb", initial_size |-> 0, prevprogress |-> 0,
     respcode |-> 0, localf |-> FALSE, curl |-> "NULL",
     opt_timecond |-> FALSE, opt_resume |-> 0,
     xfer |-> "idle", curlerr |-> "OK", dlnow |-> 0, dltotal |-> 0, blen |-> 0,
     clen |-> -1, cond_unmet |-> FALSE, better_name |-> FALSE, ticks |-> 0,
     attempts |-> <<>>, res |-> <<>>, envfail |-> "none"]

NewFs(cs) ==
    [nm \in Names(Len(cs)) |->
        IF nm = NoName THEN Absent
        ELSE LET c == cs[nm[2]] IN
             CASE nm[1] = "dest" -> IF c.dest THEN File(<<7>>) ELSE Absent
               [] nm[1] = "part" -> IF c.part > 0 THEN File(Zeros(c.part)) ELSE Absent
               [] OTHER -> Absent]

\* no invocation of the progress sink above the size limit yet
NoCb == [over |-> FALSE, ret |-> 0, flag |-> 0, int |-> FALSE, intret |-> 0]

\* struct dload_payload payload = {0} of alpm_fetch_pkgurl
ZeroPayload ==
    [fileurl |-> "NULL", allow_resume |-> FALSE, trust_remote_name |-> FALSE,
     signature |-> FALSE, force |-> FALSE, errors_ok |-> FALSE, max_size |-> 0]

\* alpm_fetch_pkgurl is not running
NoPkg ==
    [sig_package |-> FALSE, sig_optional |-> FALSE, fetchcb |-> FALSE,
     cached |-> FALSE, sigcached |-> FALSE, payload |-> ZeroPayload, ret |-> 0,
     final_pkg_url |-> "NULL", final_file |-> "NULL", filepath |-> "NULL",
     downloads |-> <<>>]

InitWith(d, cs, par) ==
    /\ driver = d
    /\ pc = CASE d = "single" -> "start" [] d = "multi" -> "add"
              [] d = "fetch" -> "fetch" [] OTHER -> "pkg"
    /\ pl = [p \in 1..Len(cs) |-> NewPayload(cs[p])]
    /\ fs = NewFs(cs)
    /\ fs0 = NewFs(cs)
    /\ dload_interrupted = 0
    /\ pm_errno = "OK"
    /\ sig = [int |-> "orig", pipe |-> "orig", installed |-> FALSE]
    /\ raised = FALSE
    /\ events = [p \in 1..Len(cs) |-> <<>>]
    /\ still_running = 0
    /\ payloads = IF d = "single" THEN 0 ELSE 1
    /\ err = 0
    /\ parallel_downloads = par
    /\ msgs = <<>>
    /\ cb = NoCb
    /\ mcerr = FALSE
    /\ calls = <<>>

(***************************************************************************)
(* The transfer configurator: the resume / freshness decision.             *)
(* curl_easy_reset clears the options of the handle; opt_timecond stands   *)
(* for CURLOPT_TIMECONDITION, opt_resume for CURLOPT_RESUME_FROM_LARGE.    *)
(***************************************************************************)
\* faulty variant: the time condition is set although force is given
UseTimeConditionForced(pp, fsys) ==
    /\ ~pp.allow_resume
    /\ pp.destfile_name # NoName
    /\ fsys[pp.destfile_name].ex

UseTimeCondition(pp, fsys) ==
    /\ ~pp.allow_resume /\ ~pp.force
    /\ pp.destfile_name # NoName
    /\ fsys[pp.destfile_name].ex

curl_set_handle_opts(pp, fsys) ==
    LET base == [pp EXCEPT !.opt_timecond = FALSE, !.opt_resume = 0]
        st_size == Len(fsys[pp.tempfile_name].data)
    IN  IF UseTimeCondition(pp, fsys)
        THEN [base EXCEPT !.opt_timecond = TRUE]
        ELSE IF fsys[pp.tempfile_name].ex /\ pp.allow_resume
             THEN [base EXCEPT !.tempfile_openmode = "ab",
                               !.opt_resume = st_size,
                               !.initial_size = st_size]
             ELSE base

(***************************************************************************)
(* The progress sink.  The front end's callback handle->dlcb is            *)
(* registered: both drivers call it without a test.                        *)
(* Result: the value returned to the library, the interrupt flag, the new  *)
(* prevprogress and whether a PROGRESS event was handed to dlcb.           *)
(***************************************************************************)
CbResult(r, f, prev, e) == [ret |-> r, flag |-> f, prev |-> prev, emit |-> e]

OverMaxSize(pp, current_size) ==
    pp.max_size # 0 /\ current_size > pp.max_size

SameProgress(pp, dltotal, dlnow) ==
    pp.prevprogress = pp.initial_size + dltotal

dload_progress_cb(pp, flag, dltotal, dlnow) ==
    IF pp.signature THEN CbResult(0, flag, pp.prevprogress, FALSE)
    ELSE IF pp.respcode >= 300 THEN CbResult(0, flag, pp.prevprogress, FALSE)
    ELSE IF flag # 0 THEN CbResult(1, flag, pp.prevprogress, FALSE)
    ELSE IF dlnow < 0 \/ dltotal <= 0 \/ dlnow > dltotal
         THEN CbResult(0, flag, pp.prevprogress, FALSE)
    ELSE IF OverMaxSize(pp, pp.initial_size + dlnow)
         THEN CbResult(1, ABORT_OVER_MAXFILESIZE, pp.prevprogress, FALSE)
    ELSE IF SameProgress(pp, dltotal, dlnow)
         THEN CbResult(0, flag, pp.prevprogress, FALSE)
    ELSE CbResult(0, flag, pp.initial_size + dlnow, TRUE)

(***************************************************************************)
(* File operations.                                                        *)
(***************************************************************************)
\* fopen(path, mode): "wb" truncates or creates, "ab" keeps or creates
Fopen(fsys, nm, mode) ==
    IF mode = "ab" /\ fsys[nm].ex THEN fsys
    ELSE [fsys EXCEPT ![nm] = File(<<>>)]

Unlink(fsys, nm) == [fsys EXCEPT ![nm] = Absent]

\* rename(from, to), when it succeeds
Rename(fsys, from, to) == [fsys EXCEPT ![to] = fsys[from], ![from] = Absent]

Write(fsys, nm, b) == [fsys EXCEPT ![nm].data = Append(@, b)]

Ev(kind, v) == <<kind, v>>

\* a transfer handed to the library: nothing received yet
StartTransfer(pp) ==
    [pp EXCEPT !.xfer = "conn", !.curlerr = "OK", !.dlnow = 0, !.dltotal = 0,
               !.blen = 0, !.clen = -1, !.cond_unmet = FALSE,
               !.better_name = FALSE,
               !.attempts = Append(@, pp.fileurl)]

(***************************************************************************)
(* The single-transfer driver, curl_download_internal.                     *)
(* S_Prepare is the code from the entry to the point where the stream is   *)
(* open (or cleanup is entered); S_Classify is the code after              *)
(* curl_easy_perform up to the cleanup label; S_Cleanup is the code from   *)
(* the cleanup label to the return.  The local stream localf is kept in    *)
(* the localf field of the payload.                                        *)
(***************************************************************************)
Step(go, r, pp, fsys, pm) == [go |-> go, ret |-> r, pp |-> pp, fs |-> fsys, pm |-> pm]

\* "part file is complete": the short cut taken before the stream is opened
PartComplete(pp) == pp.max_size = pp.initial_size /\ pp.max_size # 0

S_Prepare(pp0, fsys, urlOk, tmpOk, openOk) ==
    LET pa == [pp0 EXCEPT !.curl = "live", !.fileurl = 1,
                          !.tempfile_name = NoName, !.destfile_name = NoName,
                          !.tempfile_openmode = "wb"]
        \* remote_name is empty or ".sig": a random temporary file
        pt == [pa EXCEPT !.unlink_on_fail = TRUE]
        pb == IF pa.named
              THEN [pa EXCEPT !.destfile_name = DestName(1),
                              !.tempfile_name = PartName(1)]
              ELSE [pt EXCEPT !.tempfile_name = TmpName(1), !.localf = TRUE]
        fb == IF pa.named THEN fsys ELSE Fopen(fsys, TmpName(1), "wb")
        pcfg == curl_set_handle_opts(pb, fb)
    IN  \* curl_gethost fails: RET_ERR returns at once, past the cleanup label
        IF ~urlOk
        THEN Step("return", -1, [pa EXCEPT !.envfail = "url"], fsys, "SERVER_BAD_URL")
        ELSE IF ~pa.named /\ ~tmpOk THEN Step("cleanup", -1, pt, fsys, "OK")
        ELSE IF PartComplete(pcfg) THEN Step("cleanup", 0, pcfg, fb, "OK")
        ELSE IF ~pcfg.localf /\ ~openOk THEN Step("cleanup", -1, pcfg, fb, "RETRIEVE")
        ELSE Step("perform", -1, [pcfg EXCEPT !.localf = TRUE],
                  IF pcfg.localf THEN fb
                  ELSE Fopen(fb, pcfg.tempfile_name, pcfg.tempfile_openmode),
                  "OK")

\* the name the artifact is published under when the remote name is trusted
RemoteName(pp) ==
    IF pp.trust_remote_name /\ pp.better_name THEN AltName(1) ELSE pp.destfile_name

S_Classify(pp, fsys, flag, pm) ==
    LET st_size == Len(fsys[pp.tempfile_name].data)
        bytes_dl == pp.dlnow
        remote_size == pp.clen
        un == [pp EXCEPT !.unlink_on_fail = TRUE]
    IN  CASE pp.curlerr = "OK" /\ pp.respcode >= 400 ->
                Step("cleanup", -1, un, fsys, IF pp.errors_ok THEN pm ELSE "RETRIEVE")
          [] pp.curlerr = "ABORTED" ->
                IF flag = ABORT_OVER_MAXFILESIZE
                THEN Step("cleanup", -1, un, fsys, "LIBCURL")
                ELSE Step("cleanup", -1, pp, fsys, pm)
          [] pp.curlerr = "RESOLVE" ->
                Step("cleanup", -1, un, fsys, "SERVER_BAD_URL")
          [] pp.curlerr = "OTHER" ->
                Step("cleanup", -1, IF st_size = 0 THEN un ELSE pp, fsys,
                     IF pp.errors_ok THEN pm ELSE "LIBCURL")
          [] OTHER ->
                IF pp.cond_unmet /\ bytes_dl = 0
                THEN Step("cleanup", 1, pp, Unlink(fsys, pp.tempfile_name), pm)
                ELSE IF remote_size # -1 /\ bytes_dl # -1 /\ bytes_dl # remote_size
                THEN Step("cleanup", -1, pp, fsys, "RETRIEVE")
                ELSE Step("cleanup", 0, [pp EXCEPT !.destfile_name = RemoteName(pp)],
                          fsys, pm)

\* faulty variant: the temp file is renamed whatever the result
S_RenameAlways(ret, pp) == pp.destfile_name # NoName

\* if(ret == 0) { if(payload->destfile_name) rename(...) }
S_RenameWanted(ret, pp) == ret = 0 /\ pp.destfile_name # NoName

\* faulty variant: the temp file of every failed payload is removed
S_UnlinkOnAnyFailure(ret, flag, pp) == ret = -1 /\ pp.tempfile_name # NoName

\* if((ret == -1 || dload_interrupted) && payload->unlink_on_fail && payload->tempfile_name)
S_UnlinkWanted(ret, flag, pp) ==
    (ret = -1 \/ flag # 0) /\ pp.unlink_on_fail /\ pp.tempfile_name # NoName

\* unmask_signal of the saved dispositions; they are saved by mask_signal only
Restored(sg, junk) ==
    IF sg.installed THEN [int |-> "orig", pipe |-> "orig", installed |-> FALSE]
    ELSE IF junk THEN [int |-> "undefined", pipe |-> "undefined", installed |-> FALSE]
    ELSE [int |-> "orig", pipe |-> "orig", installed |-> FALSE]

S_Cleanup(st, flag, renameOk) ==
    LET pp == st.pp
        moved == S_RenameWanted(st.ret, pp) /\ st.fs[pp.tempfile_name].ex /\ renameOk
        ret1 == IF S_RenameWanted(st.ret, pp) /\ ~moved THEN -1 ELSE st.ret
        f1 == IF moved THEN Rename(st.fs, pp.tempfile_name, pp.destfile_name) ELSE st.fs
        f2 == IF S_UnlinkWanted(ret1, flag, pp) THEN Unlink(f1, pp.tempfile_name) ELSE f1
    IN  [ret |-> ret1, fs |-> f2, pm |-> st.pm,
         pp |-> [pp EXCEPT !.localf = FALSE, !.curl = "NULL", !.xfer = "idle",
                           !.res = Append(@, ret1)]]

S_Return(st, renameOk, junk) ==
    LET c == S_Cleanup(st, dload_interrupted, renameOk) IN
    /\ pl' = [pl EXCEPT ![1] = c.pp]
    /\ fs' = c.fs
    /\ pm_errno' = c.pm
    /\ sig' = Restored(sig, junk)
    /\ raised' = (dload_interrupted = ABORT_SIGINT)
    /\ events' = [events EXCEPT ![1] = Append(@, Ev("COMPLETED", c.ret))]
    /\ pc' = "done"
    /\ UNCHANGED dload_interrupted

S_Begin ==
    /\ driver = "single" /\ pc = "start"
    /\ \E urlOk \in BOOLEAN, tmpOk \in BOOLEAN, openOk \in BOOLEAN,
          renameOk \in BOOLEAN, junk \in BOOLEAN :
        LET st == S_Prepare(pl[1], fs, urlOk, tmpOk, openOk) IN
        IF st.go = "return"
        THEN /\ pl' = [pl EXCEPT ![1] = [st.pp EXCEPT !.res = Append(@, st.ret)]]
             /\ pm_errno' = st.pm
             /\ pc' = "done"
             /\ UNCHANGED <<fs, sig, raised, events, dload_interrupted>>
        ELSE IF st.go = "cleanup"
        THEN S_Return(st, renameOk, junk)
        ELSE /\ pl' = [pl EXCEPT ![1] = StartTransfer(st.pp)]
             /\ fs' = st.fs
             /\ pm_errno' = st.pm
             /\ sig' = [int |-> "inthandler", pipe |-> "SIG_IGN", installed |-> TRUE]
             /\ dload_interrupted' = 0
             /\ events' = [events EXCEPT ![1] = Append(@, Ev("INIT", 0))]
             /\ pc' = "perform"
             /\ UNCHANGED raised
    /\ UNCHANGED <<driver, fs0, still_running, payloads, err, parallel_downloads, msgs, cb, mcerr, calls, pkg>>

S_Finish ==
    /\ driver = "single" /\ pc = "perform" /\ pl[1].xfer = "done"
    /\ \E renameOk \in BOOLEAN :
        S_Return(S_Classify(pl[1], fs, dload_interrupted, pm_errno), renameOk, FALSE)
    /\ UNCHANGED <<driver, fs0, still_running, payloads, err, parallel_downloads, msgs, cb, mcerr, calls, pkg>>

(***************************************************************************)
(* The environment: the transfer library serving one transfer.             *)
(***************************************************************************)
\* what a mirror can answer to the request the handle is configured for
Responses(pp) ==
    {[kind |-> "ok", known |-> k, better |-> b] :
        k \in BOOLEAN, b \in IF pp.trust_remote_name THEN BOOLEAN ELSE {FALSE}}
    \cup {[kind |-> "error", known |-> TRUE, better |-> FALSE]}
    \cup (IF pp.opt_timecond
          THEN {[kind |-> "notmodified", known |-> FALSE, better |-> FALSE]} ELSE {})

\* dload_parseheader_cb caches the response code; CURLOPT_MAXFILESIZE_LARGE
\* makes the library refuse an announced length above max_size
Answer(pp, r) ==
    LET len == IF pp.opt_resume < pp.size THEN pp.size - pp.opt_resume ELSE 0 IN
    CASE r.kind = "ok" ->
            IF r.known /\ pp.max_size # 0 /\ len > pp.max_size
            THEN [pp EXCEPT !.respcode = 200, !.xfer = "done", !.curlerr = "OTHER"]
            ELSE [pp EXCEPT !.respcode = 200, !.xfer = "body", !.blen = len,
                            !.clen = IF r.known THEN len ELSE -1,
                            !.dltotal = IF r.known THEN len ELSE 0,
                            !.better_name = r.better]
      [] r.kind = "error" ->
            [pp EXCEPT !.respcode = 404, !.xfer = "body", !.blen = 1, !.clen = 1,
                       !.dltotal = 1]
      [] OTHER ->
            [pp EXCEPT !.respcode = 304, !.xfer = "body", !.cond_unmet = TRUE]

Queue(p, pp) ==
    msgs' = IF driver = "multi" /\ pp.xfer = "done" THEN Append(msgs, p) ELSE msgs

RecvHeader(p) ==
    /\ pc = "perform" /\ pl[p].xfer = "conn"
    /\ \E r \in Responses(pl[p]) :
        /\ r.kind = "ok" => pl[p].opt_resume < pl[p].size
        /\ LET pp == Answer(pl[p], r) IN
            /\ pl' = [pl EXCEPT ![p] = pp]
            /\ Queue(p, pp)
    /\ UNCHANGED <<driver, pc, fs, fs0, dload_interrupted, pm_errno, sig, raised,
                   events, still_running, payloads, err, parallel_downloads, cb, mcerr, calls, pkg>>

\* the library calls the progress sink with (dltotal, dlnow)
Progress(p, pp, dlnow) ==
    LET r == dload_progress_cb(pp, dload_interrupted, pp.dltotal, dlnow)
        pq == [pp EXCEPT !.prevprogress = r.prev]
        pr == IF r.ret # 0 THEN [pq EXCEPT !.xfer = "done", !.curlerr = "ABORTED"]
              ELSE pq
    IN  /\ pl' = [pl EXCEPT ![p] = pr]
        /\ dload_interrupted' = r.flag
        /\ events' = IF r.emit
                     THEN [events EXCEPT ![p] = Append(@, Ev("PROGRESS", dlnow))]
                     ELSE events
        /\ cb' = LET c1 == IF pp.max_size > 0 /\ pp.initial_size + dlnow > pp.max_size
                           THEN [cb EXCEPT !.over = TRUE, !.ret = r.ret, !.flag = r.flag]
                           ELSE cb
                 IN  IF dload_interrupted = ABORT_SIGINT
                     THEN [c1 EXCEPT !.int = TRUE, !.intret = r.ret] ELSE c1
        /\ Queue(p, pr)

RecvData(p) ==
    /\ pc = "perform" /\ pl[p].xfer = "body" /\ pl[p].dlnow < pl[p].blen
    /\ fs' = Write(fs, pl[p].tempfile_name,
                   IF pl[p].respcode >= 400 THEN 9 ELSE pl[p].fileurl)
    /\ Progress(p, [pl[p] EXCEPT !.dlnow = @ + 1], pl[p].dlnow + 1)
    /\ UNCHANGED <<driver, pc, fs0, pm_errno, sig, raised, still_running, payloads,
                   err, parallel_downloads, mcerr, calls, pkg>>

Tick(p) ==
    /\ pc = "perform" /\ pl[p].xfer \in {"conn", "body"} /\ pl[p].ticks < MaxTicks
    /\ Progress(p, [pl[p] EXCEPT !.ticks = @ + 1], pl[p].dlnow)
    /\ UNCHANGED <<driver, pc, fs, fs0, pm_errno, sig, raised, still_running, payloads,
                   err, parallel_downloads, mcerr, calls, pkg>>

\* the transfer ends with CURLE_OK: the body is complete, or it is shorter
\* than the announced length
EndOK(p) ==
    /\ pc = "perform" /\ pl[p].xfer = "body"
    /\ pl[p].dlnow = pl[p].blen \/ pl[p].clen # -1
    /\ LET pp == [pl[p] EXCEPT !.xfer = "done", !.curlerr = "OK"] IN
        /\ pl' = [pl EXCEPT ![p] = pp]
        /\ Queue(p, pp)
    /\ UNCHANGED <<driver, pc, fs, fs0, dload_interrupted, pm_errno, sig, raised,
                   events, still_running, payloads, err, parallel_downloads, cb, mcerr, calls, pkg>>

\* CURLE_COULDNT_RESOLVE_HOST before the connection, any other error at any time
EndError(p) ==
    /\ pc = "perform" /\ pl[p].xfer \in {"conn", "body"}
    /\ \E e \in IF pl[p].xfer = "conn" THEN {"RESOLVE", "OTHER"} ELSE {"OTHER"} :
        LET pp == [pl[p] EXCEPT !.xfer = "done", !.curlerr = e] IN
        /\ pl' = [pl EXCEPT ![p] = pp]
        /\ Queue(p, pp)
    /\ UNCHANGED <<driver, pc, fs, fs0, dload_interrupted, pm_errno, sig, raised,
                   events, still_running, payloads, err, parallel_downloads, cb, mcerr, calls, pkg>>

\* SIGINT is delivered while the engine's handler is installed
inthandler ==
    /\ sig.int = "inthandler" /\ dload_interrupted # ABORT_SIGINT
    /\ dload_interrupted' = ABORT_SIGINT
    /\ UNCHANGED <<driver, pc, pl, fs, fs0, pm_errno, sig, raised, events,
                   still_running, payloads, err, parallel_downloads, msgs, cb, mcerr, calls, pkg>>

(***************************************************************************)
(* The parallel driver, curl_multi_download_internal.                      *)
(***************************************************************************)
\* faulty variant: the cursor stays on the mirror that failed
NextServerSame(pp) == pp.servers

\* payload->servers = payload->servers->next; 0 is the end of the list
NextServer(pp) == IF pp.servers < pp.nservers THEN pp.servers + 1 ELSE 0

\* Prepares payload p and adds its handle to the multiplexer.  go = "added":
\* returned 0 with the transfer started; otherwise the cleanup label was
\* taken and ret is returned.
curl_multi_add_payload(p, pp0, fsys, pm, urlOk, tmpOk, openOk) ==
    LET pa == [pp0 EXCEPT !.curl = "live", !.fileurl = pp0.servers,
                          !.tempfile_openmode = "wb"]
        pt == [pa EXCEPT !.unlink_on_fail = TRUE]
        pb == IF pa.named
              THEN [pa EXCEPT !.destfile_name = DestName(p),
                              !.tempfile_name = PartName(p)]
              ELSE [pt EXCEPT !.tempfile_name = TmpName(p), !.localf = TRUE]
        fb == IF pa.named THEN fsys ELSE Fopen(fsys, TmpName(p), "wb")
        pcfg == curl_set_handle_opts(pb, fb)
        Freed(pp) == [pp EXCEPT !.fileurl = 0, !.tempfile_name = NoName,
                                !.destfile_name = NoName, !.curl = "freed"]
    IN  \* curl_gethost fails: GOTO_ERR to the cleanup label
        IF ~urlOk
        THEN Step("cleanup", -1, Freed([pa EXCEPT !.envfail = "url"]), fsys,
                  "SERVER_BAD_URL")
        ELSE IF ~pa.named /\ ~tmpOk
        THEN Step("cleanup", -1, Freed([pt EXCEPT !.envfail = "tmpfile"]), fsys, pm)
        ELSE IF PartComplete(pcfg) THEN Step("cleanup", 0, Freed(pcfg), fb, pm)
        ELSE IF ~pcfg.localf /\ ~openOk
        THEN Step("cleanup", -1, Freed([pcfg EXCEPT !.envfail = "open"]), fb, "RETRIEVE")
        ELSE Step("added", 0, StartTransfer([pcfg EXCEPT !.localf = TRUE]),
                  IF pcfg.localf THEN fb
                  ELSE Fopen(fb, pcfg.tempfile_name, pcfg.tempfile_openmode),
                  pm)

\* for(; still_running < parallel_downloads && payloads; still_running++)
AddMore(n, pending) == n < parallel_downloads /\ pending # 0

\* faulty variant: the loop ends as soon as nothing is pending
LoopTestPendingOnly(n, pending) ==
    IF pending # 0
    THEN (IF AddMore(n, pending) THEN "add" ELSE "perform")
    ELSE "done"

\* while(still_running || payloads), then the test of the for loop
LoopTest(n, pending) ==
    IF n # 0 \/ pending # 0
    THEN (IF AddMore(n, pending) THEN "add" ELSE "perform")
    ELSE "done"

M_Add ==
    /\ driver = "multi" /\ pc = "add" /\ AddMore(still_running, payloads)
    /\ \E urlOk \in BOOLEAN, tmpOk \in BOOLEAN, openOk \in BOOLEAN :
        LET p == payloads
            st == curl_multi_add_payload(p, pl[p], fs, pm_errno, urlOk, tmpOk, openOk)
        IN  /\ pl' = [pl EXCEPT ![p] = IF st.go = "added" THEN st.pp
                                       ELSE [st.pp EXCEPT !.res = Append(@, st.ret)]]
            /\ fs' = st.fs
            /\ pm_errno' = st.pm
            /\ events' = IF st.ret = 0 /\ ~pl[p].signature
                         THEN [events EXCEPT ![p] = Append(@, Ev("INIT", 0))]
                         ELSE events
            /\ payloads' = IF st.ret = 0
                           THEN (IF p < Len(pl) THEN p + 1 ELSE 0)
                           ELSE 0
            /\ err' = IF st.ret = 0 THEN err ELSE -1
    /\ still_running' = still_running + 1
    /\ pc' = IF AddMore(still_running', payloads') THEN "add" ELSE "perform"
    /\ UNCHANGED <<driver, fs0, dload_interrupted, sig, raised,
                   parallel_downloads, msgs, cb, mcerr, calls, pkg>>

\* the transfers the library still runs: curl_multi_perform's running_handles
Running == {p \in DOMAIN pl : pl[p].xfer \in {"conn", "body"}}

\* curl_multi_perform returns: CURLM_OK or an error of the multiplexer; with
\* no message to read the loop goes round: curl_multi_wait and the loop tests
M_Perform ==
    /\ driver = "multi" /\ pc = "perform"
    /\ still_running' = Cardinality(Running)
    /\ \E mcOk \in BOOLEAN :
        /\ payloads' = IF mcOk THEN payloads ELSE 0
        /\ err' = IF mcOk THEN err ELSE -1
        /\ mcerr' = (mcerr \/ ~mcOk)
    /\ pc' = IF msgs # <<>> THEN "drain" ELSE LoopTest(still_running', payloads')
    /\ UNCHANGED <<driver, pl, fs, fs0, dload_interrupted, pm_errno, sig, raised,
                   events, parallel_downloads, msgs, cb, calls, pkg>>

\* faulty variant: no mirror is tried after the first
retry_gives_up(pp, fsys, pm, truncOk) == Step("cleanup", -1, pp, fsys, pm)

\* Return 0 if retry was successful, -1 otherwise
curl_multi_retry_next_server(pp, fsys, pm, truncOk) ==
    LET next == [pp EXCEPT !.servers = NextServer(pp)]
        url == [next EXCEPT !.fileurl = next.servers]
    IN  IF next.servers = 0 THEN Step("cleanup", -1, next, fsys, pm)
        ELSE IF pp.unlink_on_fail /\ ~truncOk
        THEN Step("cleanup", -1, [url EXCEPT !.envfail = "truncate"], fsys, "SYSTEM")
        ELSE Step("retry", 2, StartTransfer(url),
                  IF pp.unlink_on_fail
                  THEN [fsys EXCEPT ![pp.tempfile_name].data = <<>>] ELSE fsys,
                  pm)

\* the code of curl_multi_check_finished_download before its cleanup label
M_Classify(p, pp, fsys, flag, pm, truncOk) ==
    LET st_size == Len(fsys[pp.tempfile_name].data)
        bytes_dl == pp.dlnow
        remote_size == pp.clen
        un == [pp EXCEPT !.unlink_on_fail = TRUE]
    IN  CASE pp.curlerr = "OK" /\ pp.respcode >= 400 ->
                curl_multi_retry_next_server(un, fsys,
                    IF pp.errors_ok THEN pm ELSE "RETRIEVE", truncOk)
          [] pp.curlerr = "ABORTED" ->
                IF flag = ABORT_OVER_MAXFILESIZE
                THEN Step("cleanup", -1, un, fsys, "LIBCURL")
                ELSE Step("cleanup", -1, pp, fsys, pm)
          [] pp.curlerr = "RESOLVE" ->
                curl_multi_retry_next_server(un, fsys, "SERVER_BAD_URL", truncOk)
          [] pp.curlerr = "OTHER" ->
                curl_multi_retry_next_server(IF st_size = 0 THEN un ELSE pp, fsys,
                    IF pp.errors_ok THEN pm ELSE "LIBCURL", truncOk)
          [] OTHER ->
                IF pp.cond_unmet /\ bytes_dl = 0
                THEN Step("cleanup", 1, pp, Unlink(fsys, pp.tempfile_name), pm)
                ELSE IF remote_size # -1 /\ bytes_dl # -1 /\ bytes_dl # remote_size
                THEN Step("cleanup", -1, pp, fsys, "RETRIEVE")
                ELSE Step("cleanup", 0,
                          [pp EXCEPT !.destfile_name =
                              IF pp.trust_remote_name /\ pp.better_name
                              THEN AltName(p) ELSE pp.destfile_name],
                          fsys, pm)

\* if(ret == 0) { if(payload->destfile_name) rename(...) }
M_RenameWanted(ret, pp) == ret = 0 /\ pp.destfile_name # NoName

\* if((ret == -1 || dload_interrupted) && payload->unlink_on_fail && payload->tempfile_name)
M_UnlinkWanted(ret, flag, pp) ==
    (ret = -1 \/ flag # 0) /\ pp.unlink_on_fail /\ pp.tempfile_name # NoName

\* faulty variant: the failure of an optional payload is reported as -1
M_CleanupOptionalFatal(st, flag, renameOk) ==
    LET pp == st.pp
        moved == M_RenameWanted(st.ret, pp) /\ st.fs[pp.tempfile_name].ex /\ renameOk
        ret1 == IF M_RenameWanted(st.ret, pp) /\ ~moved THEN -1 ELSE st.ret
        f1 == IF moved THEN Rename(st.fs, pp.tempfile_name, pp.destfile_name) ELSE st.fs
        f2 == IF M_UnlinkWanted(ret1, flag, pp) THEN Unlink(f1, pp.tempfile_name) ELSE f1
        ret2 == ret1
    IN  [ret |-> ret2, fs |-> f2, pm |-> st.pm, ev |-> ~pp.signature, evret |-> ret1,
         pp |-> [pp EXCEPT !.localf = FALSE, !.curl = "NULL", !.xfer = "idle",
                           !.fileurl = 0, !.res = Append(@, ret2),
                           !.envfail = IF M_RenameWanted(st.ret, pp) /\ ~moved
                                       THEN "rename" ELSE @]]

\* the code of curl_multi_check_finished_download from its cleanup label on;
\* ev: a COMPLETED event is handed to dlcb
M_Cleanup(st, flag, renameOk) ==
    LET pp == st.pp
        moved == M_RenameWanted(st.ret, pp) /\ st.fs[pp.tempfile_name].ex /\ renameOk
        ret1 == IF M_RenameWanted(st.ret, pp) /\ ~moved THEN -1 ELSE st.ret
        f1 == IF moved THEN Rename(st.fs, pp.tempfile_name, pp.destfile_name) ELSE st.fs
        f2 == IF M_UnlinkWanted(ret1, flag, pp) THEN Unlink(f1, pp.tempfile_name) ELSE f1
        ret2 == IF ret1 = -1 /\ pp.errors_ok THEN -2 ELSE ret1
    IN  [ret |-> ret2, fs |-> f2, pm |-> st.pm, ev |-> ~pp.signature, evret |-> ret1,
         pp |-> [pp EXCEPT !.localf = FALSE, !.curl = "NULL", !.xfer = "idle",
                           !.fileurl = 0, !.res = Append(@, ret2),
                           !.envfail = IF M_RenameWanted(st.ret, pp) /\ ~moved
                                       THEN "rename" ELSE @]]

\* faulty variant: a COMPLETED event for every attempt, retried or not
check_finished_event_per_attempt(p, pp, fsys, flag, pm, truncOk, renameOk) ==
    LET st == M_Classify(p, pp, fsys, flag, pm, truncOk) IN
    IF st.go = "retry"
    THEN [ret |-> 2, fs |-> st.fs, pm |-> st.pm, ev |-> TRUE, evret |-> -1, pp |-> st.pp]
    ELSE M_Cleanup(st, flag, renameOk)

\* 2: retry, 1: up to date, 0: completed, -1: error, -2: error of an optional file
curl_multi_check_finished_download(p, pp, fsys, flag, pm, truncOk, renameOk) ==
    LET st == M_Classify(p, pp, fsys, flag, pm, truncOk) IN
    IF st.go = "retry"
    THEN [ret |-> 2, fs |-> st.fs, pm |-> st.pm, ev |-> FALSE, evret |-> 0, pp |-> st.pp]
    ELSE M_Cleanup(st, flag, renameOk)

\* faulty variant: a retried transfer is not counted
CountRetryNot(ret, n) == n

\* the caller counts a retried transfer as running again
CountRetry(ret, n) == IF ret = 2 THEN n + 1 ELSE n

\* one CURLMSG_DONE message read by curl_multi_info_read; after the last one
\* the loop goes round: curl_multi_wait and the loop tests
M_Check ==
    /\ driver = "multi" /\ pc = "drain" /\ msgs # <<>>
    /\ \E truncOk \in BOOLEAN, renameOk \in BOOLEAN :
        LET p == Head(msgs)
            c == curl_multi_check_finished_download(p, pl[p], fs, dload_interrupted,
                                                    pm_errno, truncOk, renameOk)
        IN  /\ pl' = [pl EXCEPT ![p] = c.pp]
            /\ fs' = c.fs
            /\ pm_errno' = c.pm
            /\ events' = IF c.ev
                         THEN [events EXCEPT ![p] = Append(@, Ev("COMPLETED", c.evret))]
                         ELSE events
            /\ payloads' = IF c.ret = -1 THEN 0 ELSE payloads
            /\ err' = IF c.ret = -1 THEN -1 ELSE err
            /\ still_running' = CountRetry(c.ret, still_running)
    /\ msgs' = Tail(msgs)
    /\ pc' = IF msgs' # <<>> THEN "drain" ELSE LoopTest(still_running', payloads')
    /\ UNCHANGED <<driver, fs0, dload_interrupted, sig, raised,
                   parallel_downloads, cb, mcerr, calls, pkg>>

(***************************************************************************)
(* The specifications.  Spec: one call of a driver on one payload.         *)
(* SpecBatch: one call of the parallel driver on a list of payloads.       *)
(* MaxTicks bounds the calls of the progress sink without new data in      *)
(* Spec.                                                                   *)
(***************************************************************************)
Init ==
    /\ pkg = NoPkg
    /\ \/ \E c \in Configs : c.nservers = 1 /\ InitWith("single", <<c>>, 1)
       \/ \E c \in Configs : InitWith("multi", <<c>>, 1)

InitBatch ==
    \E n \in 1..MaxPayloads, par \in 1..MaxPayloads :
        \E cs \in [1..n -> BatchConfigs] : InitWith("multi", cs, par) /\ pkg = NoPkg

Transfer ==
    \E p \in DOMAIN pl :
        RecvHeader(p) \/ RecvData(p) \/ Tick(p) \/ EndOK(p) \/ EndError(p)

NextMulti ==
    \/ M_Add \/ M_Perform \/ M_Check
    \/ Transfer

\* in a batch the progress sink is called as data arrives
NextBatch ==
    \/ M_Add \/ M_Perform \/ M_Check
    \/ \E p \in DOMAIN pl : RecvHeader(p) \/ RecvData(p) \/ EndOK(p) \/ EndError(p)

Next ==
    \/ S_Begin \/ S_Finish
    \/ inthandler
    \/ NextMulti

Spec == Init /\ [][Next]_vars

SpecBatch == InitBatch /\ [][NextBatch]_vars

\* _alpm_multi_download with handle->fetchcb installed
FetchConfigs ==
    {c \in AllConfigs :
        /\ c.named /\ ~c.allow_resume /\ ~c.trust_remote_name /\ ~c.unlink_on_fail
        /\ ~c.dest /\ ~c.signature /\ c.part = 0 /\ c.max_size = 0 /\ c.size = 1}

InitFetch ==
    \E n \in 1..MaxPayloads :
        \E cs \in [1..n -> FetchConfigs] : InitWith("fetch", cs, 1) /\ pkg = NoPkg

\* the values handle->fetchcb returns: error, downloaded, up to date
FetchResults == {-1, 0, 1}

\* faulty variant: only a download ends the mirror loop
FetchStopsOnZero(ret) == ret = 0

\* if (ret != -1) { success = 1; break; }
FetchStops(ret) == ret # -1

\* for(s = payload->servers; s; s = s->next): the calls made from mirror s
\* on, rets[i] being what the callback returns for mirror i
RECURSIVE FetchLoop(_, _, _)
FetchLoop(pp, rets, s) ==
    IF s > pp.nservers THEN <<>>
    ELSE <<[s |-> s, force |-> pp.force, ret |-> rets[s]]>>
         \o (IF FetchStops(rets[s]) THEN <<>> ELSE FetchLoop(pp, rets, s + 1))

FetchSuccess(loop) == \E i \in 1..Len(loop) : FetchStops(loop[i].ret)

\* one round of for(p = payloads; p; p = p->next)
F_Payload ==
    /\ driver = "fetch" /\ pc = "fetch" /\ payloads # 0
    /\ \E rets \in [1..pl[payloads].nservers -> FetchResults] :
        LET p == payloads
            loop == FetchLoop(pl[p], rets, 1)
            failed == ~FetchSuccess(loop) /\ ~pl[p].errors_ok
        IN  /\ calls' = calls \o [i \in 1..Len(loop) |->
                                    [p |-> p, s |-> loop[i].s, force |-> loop[i].force,
                                     ret |-> loop[i].ret]]
            /\ pm_errno' = IF failed THEN "EXTERNAL_DOWNLOAD" ELSE pm_errno
            /\ err' = IF failed THEN -1 ELSE 0
            /\ payloads' = IF failed THEN p ELSE (IF p < Len(pl) THEN p + 1 ELSE 0)
            /\ pc' = IF failed \/ p = Len(pl) THEN "done" ELSE "fetch"
    /\ UNCHANGED <<driver, pl, fs, fs0, dload_interrupted, sig, raised, events,
                   still_running, parallel_downloads, msgs, cb, mcerr, pkg>>

SpecFetch == InitFetch /\ [][F_Payload]_vars

\* payload.max_size = 16 * 1024
SigMaxSize == 16384

\* alpm_fetch_pkgurl is entered; cached: the package is in the cache,
\* sigcached: the file <effective_url>.sig is in the cache
InitPkg ==
    /\ InitWith("pkgurl", <<>>, 1)
    /\ \E sp \in BOOLEAN, so \in BOOLEAN, f \in BOOLEAN, c \in BOOLEAN, sc \in BOOLEAN :
        pkg = [NoPkg EXCEPT !.sig_package = sp, !.sig_optional = so, !.fetchcb = f,
                            !.cached = c, !.sigcached = sc]

\* what _alpm_download returns and leaves in *final_file and *final_url: the
\* built-in driver stores the effective URL of the easy handle in *final_url
\* and then frees the handle; the fetch callback writes neither
Download(fetchcb, want_url) ==
    IF fetchcb
    THEN [ret : {-1, 0, 1}, final_url : {"NULL"}, final_file : {"NULL"}]
    ELSE {[ret |-> 0, final_url |-> IF want_url THEN "freed" ELSE "NULL",
           final_file |-> "name"]}
         \cup [ret : {-1}, final_url : IF want_url THEN {"NULL", "freed"} ELSE {"NULL"},
                final_file : {"NULL"}]

\* the handle's error after _alpm_download: ALPM_ERR_EXTERNAL_DOWNLOAD for
\* the fetch callback, what curl_download_internal leaves for the built-in driver
DownloadErrno(fetchcb, payload, ret, pm) ==
    IF fetchcb
    THEN {IF ret = -1 /\ ~payload.errors_ok THEN "EXTERNAL_DOWNLOAD" ELSE pm}
    ELSE IF ret = -1 THEN {"OK", "RETRIEVE", "LIBCURL", "SERVER_BAD_URL"} ELSE {"OK"}

\* the bytes read through final_pkg_url: a pointer into freed memory gives
\* the old URL or anything else
ReadUrl(ptr) == IF ptr = "freed" THEN {"effective", "garbage"} ELSE {"effective"}

\* the cache lookup for the package and the first download
P_Package ==
    /\ driver = "pkgurl" /\ pc = "pkg"
    /\ IF pkg.cached
       THEN /\ pkg' = [pkg EXCEPT !.filepath = "path"]
            /\ pc' = "sig"
            /\ UNCHANGED pm_errno
       ELSE \E o \in Download(pkg.fetchcb, TRUE) :
            LET pay == [ZeroPayload EXCEPT !.fileurl = "url", !.allow_resume = TRUE,
                                           !.trust_remote_name = TRUE]
            IN  /\ pkg' = [pkg EXCEPT !.payload = ZeroPayload, !.ret = o.ret,
                                      !.final_pkg_url = o.final_url,
                                      !.final_file = o.final_file,
                                      !.downloads = Append(@, [payload |-> pay, ret |-> o.ret])]
                /\ pm_errno' \in DownloadErrno(pkg.fetchcb, pay, o.ret, pm_errno)
                /\ pc' = IF o.ret = -1 THEN "done" ELSE "sig"
    /\ UNCHANGED <<driver, pl, fs, fs0, dload_interrupted, sig, raised, events,
                   still_running, payloads, err, parallel_downloads, msgs, cb, mcerr, calls>>

SignatureWanted(k) == k.ret = 0 /\ k.final_pkg_url # "NULL" /\ k.sig_package

\* the download of the signature
P_Signature ==
    /\ driver = "pkgurl" /\ pc = "sig"
    /\ IF SignatureWanted(pkg)
       THEN \E u \in ReadUrl(pkg.final_pkg_url) :
            LET url == IF u = "effective" THEN "effective.sig" ELSE "garbage.sig"
                found == pkg.sigcached /\ u = "effective"
                pay == [ZeroPayload EXCEPT !.fileurl = url, !.signature = TRUE,
                                           !.trust_remote_name = TRUE, !.force = TRUE,
                                           !.errors_ok = pkg.sig_optional,
                                           !.max_size = SigMaxSize]
            IN  IF found
                THEN pkg' = [pkg EXCEPT !.payload = ZeroPayload] /\ UNCHANGED pm_errno
                ELSE \E o \in Download(pkg.fetchcb, FALSE) :
                     /\ pkg' = [pkg EXCEPT !.payload = ZeroPayload, !.ret = o.ret,
                                           !.downloads = Append(@, [payload |-> pay, ret |-> o.ret])]
                     /\ pm_errno' \in DownloadErrno(pkg.fetchcb, pay, o.ret, pm_errno)
       ELSE UNCHANGED <<pkg, pm_errno>>
    /\ pc' = "find"
    /\ UNCHANGED <<driver, pl, fs, fs0, dload_interrupted, sig, raised, events,
                   still_running, payloads, err, parallel_downloads, msgs, cb, mcerr, calls>>

\* _alpm_filecache_find(handle, final_file): the file just downloaded is
\* found; what is found for a NULL name is not determined here
FilecacheFind(final_file) == IF final_file = "NULL" THEN {"NULL", "path"} ELSE {"path"}

\* we should be able to find the file the second time around
P_Return ==
    /\ driver = "pkgurl" /\ pc = "find"
    /\ \E f \in FilecacheFind(pkg.final_file) :
        pkg' = [pkg EXCEPT !.filepath = IF pkg.filepath = "NULL" THEN f ELSE @,
                           !.final_file = "NULL"]
    /\ pc' = "done"
    /\ UNCHANGED <<driver, pl, fs, fs0, dload_interrupted, pm_errno, sig, raised, events,
                   still_running, payloads, err, parallel_downloads, msgs, cb, mcerr, calls>>

NextPkg ==
    \/ P_Package
    \/ P_Signature
    \/ P_Return

SpecPkg == InitPkg /\ [][NextPkg]_vars

\* the driver keeps running its loop and the transfers handed to the
\* multiplexer keep advancing: while a step is possible, a step is taken
Fairness == WF_vars(NextBatch)

\* payloads that are not optional and have no .part file
LiveConfigs == {c \in BatchConfigs : c.part = 0 /\ ~c.errors_ok}

\* batches whose first payload has the longest mirror list and whose other
\* payloads have one mirror
InitLive ==
    \E n \in 1..MaxPayloads, par \in 1..MaxPayloads :
        \E cs \in [1..n -> LiveConfigs] :
            /\ \A i \in 1..n : cs[i].nservers = IF i = 1 THEN MaxServers ELSE 1
            /\ InitWith("multi", cs, par)
            /\ pkg = NoPkg

SpecLive == InitLive /\ [][NextBatch]_vars /\ Fairness

(***************************************************************************)
(* Properties.                                                             *)
(***************************************************************************)
Payloads == DOMAIN pl

\* the driver is through with payload p, with result Result(p)
Finished(p) == pl[p].res # <<>>
Result(p) == pl[p].res[1]
Failed(p) == Finished(p) /\ Result(p) \in {-1, -2}

\* the names the driver derived for payload p (the parallel driver forgets
\* them when the preparation ends at its cleanup label)
DestOf(p) ==
    IF pl[p].destfile_name # NoName THEN pl[p].destfile_name
    ELSE IF pl[p].named THEN DestName(p) ELSE NoName
TempOf(p) ==
    IF pl[p].tempfile_name # NoName THEN pl[p].tempfile_name
    ELSE IF pl[p].named THEN PartName(p) ELSE TmpName(p)

Kinds(e) == [i \in 1..Len(e) |-> e[i][1]]
Count(e, k) == Cardinality({i \in 1..Len(e) : e[i][1] = k})

\* C1: every payload finished with result 0 whose destination name is known
\* has a file at the destination name and none at the temp name.
C1_SuccessPublishes ==
    \A p \in Payloads :
        (Finished(p) /\ Result(p) = 0 /\ DestOf(p) # NoName)
            => (fs[DestOf(p)].ex /\ ~fs[TempOf(p)].ex)

\* C2: when the download of a payload ends with result -1 the files at its
\* destination names are as they were when the driver was entered.
C2_FailureKeepsDest ==
    \A p \in Payloads :
        Failed(p) => /\ fs[DestName(p)] = fs0[DestName(p)]
                     /\ fs[AltName(p)] = fs0[AltName(p)]

C2_Witness ==
    \E p \in Payloads :
        /\ Failed(p) /\ fs0[DestName(p)].ex
        /\ pl[p].dlnow > 0 /\ pl[p].respcode = 200

\* the transfers registered with the multiplexer
Registered == {p \in Payloads : pl[p].xfer # "idle"}

\* C3: in the parallel driver the number of transfers registered with the
\* multiplexer never exceeds parallel_downloads.
C3_BoundedParallelism ==
    driver = "multi" => Cardinality(Registered) <= parallel_downloads

C3_Witness ==
    /\ driver = "multi" /\ payloads # 0
    /\ Cardinality(Registered) = parallel_downloads
    /\ \E p \in Registered : Len(pl[p].attempts) > 1

\* the outcomes of a transfer after which the next mirror is tried
Eligible(pp) ==
    \/ pp.curlerr \in {"RESOLVE", "OTHER"}
    \/ pp.curlerr = "OK" /\ pp.respcode >= 400

\* the mirror answered and the whole body arrived
Answered(pp) ==
    /\ pp.attempts # <<>> /\ pp.curlerr = "OK" /\ pp.respcode < 400
    /\ ~(pp.cond_unmet /\ pp.dlnow = 0)
    /\ pp.clen = -1 \/ pp.dlnow = pp.clen

\* every transfer the library runs is counted in still_running
SlotsCounted == still_running >= Cardinality(Running)

\* C4, as claimed: in the parallel driver a payload fails for good after a
\* failover-eligible outcome only when its mirror list is exhausted, a retried
\* payload keeps its slot, and a mirror that answers makes the result 0.
C4_FailoverAsClaimed ==
    driver = "multi" =>
        /\ SlotsCounted
        /\ \A p \in Payloads :
            /\ (Failed(p) /\ Eligible(pl[p])) => pl[p].servers = 0
            /\ (Finished(p) /\ Answered(pl[p])) => Result(p) = 0

\* C4, amended: in the parallel driver a payload fails for good after a
\* failover-eligible outcome only when its mirror list is exhausted or the
\* temp file could not be truncated for the retry; a retried payload runs on
\* the mirror under the cursor and keeps its slot; a mirror that answers makes
\* the result 0 unless the rename of the temp file fails.
C4_Failover ==
    driver = "multi" =>
        /\ SlotsCounted
        /\ \A p \in Payloads :
            /\ (Failed(p) /\ Eligible(pl[p]))
                    => (pl[p].servers = 0 \/ pl[p].envfail = "truncate")
            /\ p \in Registered
                    => /\ pl[p].fileurl = pl[p].servers
                       /\ pl[p].attempts[Len(pl[p].attempts)] = pl[p].servers
            /\ (Finished(p) /\ Answered(pl[p]))
                    => (Result(p) = 0 \/ pl[p].envfail = "rename")

C4_Witness ==
    \E p \in Payloads :
        /\ driver = "multi" /\ Finished(p) /\ Result(p) = 0
        /\ Len(pl[p].attempts) > 1 /\ fs[DestOf(p)].ex

\* C5: the mirrors a payload is attempted against are the first mirrors of
\* its list, in list order, each once.
C5_CursorForward ==
    \A p \in Payloads :
        /\ Len(pl[p].attempts) <= pl[p].nservers
        /\ \A i \in 1..Len(pl[p].attempts) : pl[p].attempts[i] = i

C5_Witness ==
    \E p \in Payloads : driver = "multi" /\ Len(pl[p].attempts) = MaxServers

\* INIT, then PROGRESS events, then at most one COMPLETED
InitProgressCompleted(e) ==
    \A i \in 1..Len(e) :
        CASE i = 1 -> e[i][1] = "INIT"
          [] i = Len(e) -> e[i][1] \in {"PROGRESS", "COMPLETED"}
          [] OTHER -> e[i][1] = "PROGRESS"

\* C6: in the parallel driver the events of a payload that is no signature
\* are INIT, then PROGRESS events, then at most one COMPLETED.
C6_EventOrder ==
    \A p \in Payloads :
        (driver = "multi" /\ ~pl[p].signature) => InitProgressCompleted(events[p])

C6_Witness ==
    \E p \in Payloads :
        /\ driver = "multi" /\ ~pl[p].signature /\ Len(pl[p].attempts) > 1
        /\ Count(events[p], "PROGRESS") > 0
        /\ Count(events[p], "COMPLETED") = 1

\* C7: when the parallel driver returns, every payload that is no signature
\* and got an INIT event got exactly one COMPLETED event.
C7_InitThenCompleted ==
    (driver = "multi" /\ pc = "done") =>
        \A p \in Payloads :
            (~pl[p].signature /\ Count(events[p], "INIT") > 0)
                => Count(events[p], "COMPLETED") = 1

\* C8: every call of the progress sink with initial_size + dl_now above a
\* non-zero max_size returns non-zero and leaves the interrupt flag at
\* ABORT_OVER_MAXFILESIZE.
C8_OverMaxSizeAborts ==
    cb.over => (cb.ret # 0 /\ cb.flag = ABORT_OVER_MAXFILESIZE)

\* C9: for a payload with allow_resume and a .part file every attempt asks
\* for the bytes from the size of the temp file on, and the file published
\* by a successful attempt has the size of the server's object.
C9_ResumeOffset ==
    \A p \in Payloads :
        (pl[p].allow_resume /\ pl[p].named /\ fs0[PartName(p)].ex) =>
            /\ pl[p].xfer = "conn"
                    => pl[p].opt_resume = Len(fs[pl[p].tempfile_name].data)
            /\ (Finished(p) /\ Result(p) = 0 /\ pl[p].attempts # <<>>)
                    => Len(fs[pl[p].destfile_name].data) = pl[p].size

\* the driver has configured the transfer of payload p
Configured(p) == (pl[p].curl # "NULL" \/ Finished(p)) /\ pl[p].envfail # "url"

\* C10: the time condition is set exactly when allow_resume and force are
\* off and the destination file exists; a transfer that ends with the
\* condition unmet and no byte received has result 1, a COMPLETED event with
\* result 1, the destination file as it was and no temp file.
C10_TimeCondition ==
    \A p \in Payloads :
        /\ Configured(p) =>
              (pl[p].opt_timecond <=>
                  (~pl[p].allow_resume /\ ~pl[p].force /\ pl[p].named
                    /\ fs0[DestName(p)].ex))
        /\ (Finished(p) /\ pl[p].curlerr = "OK" /\ pl[p].cond_unmet /\ pl[p].dlnow = 0)
              => /\ Result(p) = 1
                 /\ pl[p].opt_timecond
                 /\ fs[DestName(p)] = fs0[DestName(p)]
                 /\ ~fs[TempOf(p)].ex
                 /\ (driver = "single" \/ ~pl[p].signature)
                        => events[p][Len(events[p])] = Ev("COMPLETED", 1)
        /\ (Finished(p) /\ Result(p) = 1) => pl[p].cond_unmet

C10_Witness ==
    \E p \in Payloads :
        /\ driver = "single" /\ Finished(p) /\ Result(p) = 1
        /\ fs0[DestName(p)].ex /\ pl[p].opt_timecond

LastEvent(p) == events[p][Len(events[p])]

\* C11: in the single driver a progress-sink invocation after a SIGINT
\* cancels the transfer; the driver then ends with result -1 and a COMPLETED
\* event with result -1, the temp file is gone when unlink_on_fail is set, and
\* SIGINT is raised again only with the temp file cleaned up and the original
\* dispositions of SIGINT and SIGPIPE restored.
C11_InterruptCancels ==
    driver = "single" =>
        /\ cb.int => cb.intret # 0
        /\ (pc = "done" /\ cb.int) =>
              /\ Result(1) = -1
              /\ LastEvent(1) = Ev("COMPLETED", -1)
              /\ pl[1].unlink_on_fail => ~fs[TempOf(1)].ex
              /\ raised
        /\ raised =>
              /\ sig.int = "orig" /\ sig.pipe = "orig"
              /\ pl[1].unlink_on_fail => ~fs[TempOf(1)].ex

\* the dispositions a blocking transfer runs under
Shielded == sig.int = "inthandler" /\ sig.pipe = "SIG_IGN"

\* C12: while the parallel driver has transfers in progress SIGPIPE is
\* ignored and SIGINT is handled by inthandler, and when the driver has
\* returned the dispositions are the original ones.
C12_MultiShield ==
    driver = "multi" =>
        /\ Running # {} => Shielded
        /\ pc = "done" => (sig.int = "orig" /\ sig.pipe = "orig")

\* C13: when the single driver has returned -1 for a payload with errors_ok
\* off, the error of the handle is not ALPM_ERR_OK.
C13_FailureSetsErrno ==
    (driver = "single" /\ pc = "done" /\ Result(1) = -1 /\ ~pl[1].errors_ok)
        => pm_errno # "OK"

\* C14: the transfers of payloads with errors_ok on leave the error of the
\* handle as it was, whatever their outcome, in both drivers.
C14_OptionalKeepsErrno ==
    (\A p \in Payloads :
        pl[p].errors_ok /\ pl[p].attempts # <<>> /\ pl[p].envfail = "none")
        => pm_errno = "OK"

\* C15: when the parallel driver has returned and every payload has result
\* 0 or 1, the error of the handle is the one it had at entry: errors on
\* mirrors that were followed by a retry are not recorded.
C15_RetriedErrorsSwallowed ==
    (driver = "multi" /\ pc = "done"
        /\ \A p \in Payloads : Finished(p) /\ Result(p) \in {0, 1})
        => pm_errno = "OK"

\* a payload failed preparation or a payload that is not optional failed for good
Fatal == \E p \in Payloads : Finished(p) /\ Result(p) = -1

\* every transfer that was started has been finalized
AllFinalized ==
    /\ Running = {} /\ msgs = <<>>
    /\ \A p \in Payloads : pl[p].attempts # <<>> => (Finished(p) /\ pl[p].xfer = "idle")

\* C16: in the parallel driver, once a payload failed preparation or a
\* payload that is not optional failed for good, the pending payloads are
\* dropped and the driver will return -1; when the driver returns, every
\* transfer that was started has run to its end and has been finalized.
C16_FatalStopsEnqueue ==
    driver = "multi" =>
        /\ Fatal => (err = -1 /\ payloads = 0)
        /\ pc = "done" => AllFinalized

C16_Witness ==
    \E p, q \in Payloads :
        /\ driver = "multi" /\ pc = "done" /\ err = -1
        /\ Finished(p) /\ Result(p) = -1 /\ pl[p].attempts # <<>>
        /\ Finished(q) /\ Result(q) = 0 /\ fs[DestOf(q)].ex

\* an optional payload failed for good
OptionalFailed == \E p \in Payloads : Finished(p) /\ Result(p) = -2

\* a payload failed preparation or a payload that is not optional failed
FatalEvent ==
    \E p \in Payloads : Failed(p) /\ (~pl[p].errors_ok \/ pl[p].attempts = <<>>)

\* a payload that was neither started nor finished without a transfer
Unstarted(p) == ~Finished(p) /\ pl[p].attempts = <<>>

\* C17: in the parallel driver the failure of an optional payload neither
\* drops the pending payloads nor makes the driver return -1: both happen
\* only after a preparation failure, the failure of a payload that is not
\* optional, or an error of the multiplexer.
C17_OptionalNotFatal ==
    driver = "multi" =>
        /\ (~FatalEvent /\ ~mcerr) => err = 0
        /\ (~FatalEvent /\ ~mcerr /\ pc # "done") =>
              \A q \in Payloads : Unstarted(q) => (payloads # 0 /\ payloads <= q)
        /\ (~FatalEvent /\ ~mcerr /\ pc = "done") =>
              \A q \in Payloads : ~Unstarted(q)

C17_Witness ==
    \E p, q \in Payloads :
        /\ driver = "multi" /\ pc = "done" /\ err = 0 /\ p < q
        /\ parallel_downloads = 1
        /\ Finished(p) /\ Result(p) = -2 /\ pl[p].attempts # <<>>
        /\ Finished(q) /\ Result(q) = 0 /\ fs[DestOf(q)].ex

\* the loop of the parallel driver has ended with nothing active and
\* nothing pending
Terminated == pc = "done" /\ AllFinalized /\ payloads = 0 /\ still_running = 0

\* C18: when every transfer handed to the multiplexer completes, the loop
\* of the parallel driver ends, and it ends only with no transfer active, no
\* retry in progress and no payload pending.
C18_Terminates == <>(pc = "done") /\ [](pc = "done" => Terminated)

C18_Witness ==
    \E p \in Payloads :
        /\ pc = "done" /\ Finished(p) /\ Len(pl[p].attempts) > 1
        /\ parallel_downloads < Len(pl)

\* the callback was called for payload p
Called(p) == \E i \in 1..Len(calls) : calls[i].p = p

\* call i follows call i - 1 in the order of the lists
InListOrder(i) ==
    IF calls[i].s > 1
    THEN /\ i > 1 /\ calls[i - 1].p = calls[i].p /\ calls[i - 1].s = calls[i].s - 1
         /\ calls[i - 1].ret = -1
    ELSE IF i = 1 THEN calls[i].p = 1
    ELSE /\ calls[i].p = calls[i - 1].p + 1
         /\ \/ calls[i - 1].ret # -1
            \/ /\ calls[i - 1].s = pl[calls[i - 1].p].nservers
               /\ pl[calls[i - 1].p].errors_ok

\* no built-in transfer was started
NoBuiltin ==
    /\ fs = fs0
    /\ \A p \in Payloads :
        pl[p].attempts = <<>> /\ pl[p].curl = "NULL" /\ events[p] = <<>>

\* C19: with a fetch callback installed no built-in transfer is started; the
\* callback is called payload by payload and mirror by mirror in list order,
\* until a mirror's result is not -1; -1 is returned with EXTERNAL_DOWNLOAD at
\* the first payload that is not optional and got -1 from every mirror, with
\* no call for a later payload, and 0 is returned otherwise.
C19_FetchCallback ==
    driver = "fetch" =>
        /\ NoBuiltin
        /\ \A i \in 1..Len(calls) :
              InListOrder(i) /\ calls[i].force = pl[calls[i].p].force
        /\ (pc = "done" /\ err = -1) =>
              LET last == calls[Len(calls)] IN
              /\ pm_errno = "EXTERNAL_DOWNLOAD"
              /\ last.ret = -1 /\ last.s = pl[last.p].nservers
              /\ ~pl[last.p].errors_ok
        /\ (pc = "done" /\ err = 0) =>
              /\ pm_errno = "OK"
              /\ \A p \in Payloads : Called(p)
              /\ LET last == calls[Len(calls)] IN
                 last.ret # -1 \/ (last.s = pl[last.p].nservers /\ pl[last.p].errors_ok)
        /\ pc = "done" => err \in {0, -1}

C19_Witness ==
    /\ driver = "fetch" /\ pc = "done" /\ err = -1
    /\ Len(pl) > 1 /\ ~Called(Len(pl)) /\ Len(calls) > 1

\* the package was downloaded by the first call of _alpm_download
PackageDownloaded == pkg.downloads # <<>> /\ pkg.downloads[1].ret = 0

\* C20: when alpm_fetch_pkgurl has downloaded the package and SIG_PACKAGE is
\* set, it asks for <effective_url>.sig with force, signature, max_size of
\* 16 KiB and errors_ok as the SIG_PACKAGE_OPTIONAL bit, and whatever the
\* outcome for the signature it returns the path of the package.
C20_SignaturePolicy ==
    (driver = "pkgurl" /\ PackageDownloaded) =>
        /\ (pc \in {"find", "done"} /\ pkg.sig_package /\ ~pkg.sigcached) =>
              /\ Len(pkg.downloads) = 2
              /\ pkg.downloads[2].payload =
                    [ZeroPayload EXCEPT !.fileurl = "effective.sig", !.signature = TRUE,
                                        !.trust_remote_name = TRUE, !.force = TRUE,
                                        !.errors_ok = pkg.sig_optional,
                                        !.max_size = SigMaxSize]
        /\ pc = "done" => pkg.filepath = "path"

C22_SignatureSilent ==
    \A p \in Payloads :
        pl[p].signature =>
            (Count(events[p], "PROGRESS") = 0 /\ Count(events[p], "COMPLETED") = 0)

\* C23: in the single driver every COMPLETED event of a payload comes after
\* an INIT event of that payload.
C23_InitBeforeCompleted ==
    driver = "single" =>
        \A p \in Payloads : \A i \in 1..Len(events[p]) :
            events[p][i][1] = "COMPLETED"
                => \E j \in 1..(i - 1) : events[p][j][1] = "INIT"

\* C24: when the single driver has returned, the dispositions of SIGINT and
\* SIGPIPE are the ones in force when it was entered.
C24_DispositionsRestored ==
    (driver = "single" /\ pc = "done") => (sig.int = "orig" /\ sig.pipe = "orig")

\* C25: every transfer handle a driver allocated is released by the time the
\* driver has returned, on the early error returns as on the cleanup paths.
C25_HandlesReleased ==
    pc = "done" => \A p \in Payloads : pl[p].curl # "live"

\* C26: when alpm_fetch_pkgurl is about to build <effective_url>.sig from the
\* pointer handed back through out_final_url, the storage that pointer names
\* has not been released with its handle.
C26_FinalUrlValid ==
    (driver = "pkgurl" /\ pc = "sig" /\ SignatureWanted(pkg))
        => pkg.final_pkg_url # "freed"

\* the step appended a PROGRESS event for payload p
Emitted(p) == Count(events'[p], "PROGRESS") > Count(events[p], "PROGRESS")

\* the sink ran for p in this step and got as far as the comparison with
\* prevprogress: no signature, no redirect, no abort flag, sane counters and
\* no size limit exceeded
SinkCompares(p) ==
    /\ pl[p].xfer \in {"conn", "body"}
    /\ ~pl[p].signature /\ pl[p].respcode < 300 /\ dload_interrupted = 0
    /\ pl'[p].dltotal > 0 /\ pl'[p].dlnow <= pl'[p].dltotal
    /\ ~OverMaxSize(pl[p], pl[p].initial_size + pl'[p].dlnow)

\* C27: the progress sink emits PROGRESS only when initial_size + dl_now
\* differs from prevprogress, so an invocation that repeats the dl_now of the
\* last event emits nothing, and an invocation with a changed dl_now emits.
C27_ProgressOnChange ==
    [][\A p \in Payloads :
          /\ Emitted(p) => pl[p].initial_size + pl'[p].dlnow # pl[p].prevprogress
          /\ (SinkCompares(p) /\ pl'[p].dlnow # pl[p].dlnow) => Emitted(p)]_vars

\* payload p came with a .part file of n bytes that the configurator resumes
ResumesFrom(p, n) ==
    /\ pl[p].allow_resume /\ pl[p].named
    /\ fs0[PartName(p)].ex /\ Len(fs0[PartName(p)].data) = n

\* C28: once the configurator has run for a payload with a size limit,
\* initial_size is at most max_size whatever the size of the .part file found;
\* a payload whose .part file has exactly max_size bytes is finished without
\* an attempt on any mirror and without its temp file being written.
C28_InitialSizeBounded ==
    \A p \in Payloads :
        /\ (Configured(p) /\ pl[p].max_size > 0)
              => pl[p].initial_size <= pl[p].max_size
        /\ (pl[p].max_size > 0 /\ ResumesFrom(p, pl[p].max_size) /\ Finished(p)) =>
              /\ pl[p].attempts = <<>>
              /\ fs[PartName(p)] = fs0[PartName(p)] \/ ~fs[PartName(p)].ex

\* C29: in the parallel driver a transfer the sink cancelled for a reason
\* other than SIGINT belongs to a payload that exceeded its own max_size,
\* and no transfer is running while the flag says that some payload's size
\* limit was exceeded.
C29_OwnLimitOnly ==
    driver = "multi" =>
        /\ \A p \in Payloads :
              (pl[p].curlerr = "ABORTED" /\ dload_interrupted # ABORT_SIGINT)
                  => OverMaxSize(pl[p], pl[p].initial_size + pl[p].dlnow)
        /\ dload_interrupted = ABORT_OVER_MAXFILESIZE => Running = {}

====
